---- MODULE Spec2Model ----
(***************************************************************************)
(* Model of the two XML link scrapers of link_scraper:                     *)
(*   formats::xml::scrape          (the generic link scraper)              *)
(*   formats::xml::xlink::scrape   (the XLink scraper and its sub-loop     *)
(*                                  scrape_from_xlink_extended)            *)
(* Both pull events from an xml-rs EventReader.  The reader is modelled as *)
(* a producer of well-formed event prefixes that may fail at any point and *)
(* that keeps returning its final result (EndDocument or the error).       *)
(***************************************************************************)
EXTENDS Integers, Sequences, FiniteSets, TLC

\* Number of events the reader produces before it must end or fail.
MaxEvents == 4

(***************************************************************************)
(* Strings.  A string is a sequence of tokens; a token is either           *)
(* URL-shaped or not.  The matched substring of a URL token is the         *)
(* one-token string holding it.                                            *)
(***************************************************************************)
UrlTokens == {"https://a.test", "https://b.test"}

None == << >>
Some(v) == << v >>

NonUrlText == << "text" >>
UrlText == << "https://a.test", "text", "https://b.test" >>
Texts == {NonUrlText, UrlText}
OptTexts == {None} \cup {Some(t) : t \in Texts}

RECURSIVE find_urls_from(_, _)
find_urls_from(text, i) ==
    IF i > Len(text) THEN << >>
    ELSE IF text[i] \in UrlTokens
         THEN << [as_str |-> << text[i] >>, start |-> i - 1] >>
                  \o find_urls_from(text, i + 1)
         ELSE find_urls_from(text, i + 1)

\* helpers::find_urls: the ordered matches of URL-shaped substrings.
find_urls(text) == find_urls_from(text, 1)

(***************************************************************************)
(* Events of the reader.                                                   *)
(***************************************************************************)
XLINK_NAMESPACE == "http://www.w3.org/1999/xlink"

Names == {"a", "b"}

OwnedAttribute(ns, local, value) ==
    [namespace |-> ns, local_name |-> local, value |-> value]

XAttr(local, opt) ==
    IF opt = None THEN << >>
    ELSE << OwnedAttribute(Some(XLINK_NAMESPACE), local, opt[1]) >>

XlinkAttributes(type, href, role, arcrole) ==
    XAttr("type", type) \o XAttr("href", href)
        \o XAttr("role", role) \o XAttr("arcrole", arcrole)

\* The (href, role, arcrole) combinations of the simple elements.
SimpleFields ==
    {<<Some(t), Some(t), Some(t)>> : t \in Texts}
        \cup {<<Some(UrlText), None, Some(NonUrlText)>>}

\* The (href, role) combinations of the locator elements.
LocatorFields ==
    {<<None, None>>,
     <<Some(NonUrlText), Some(UrlText)>>,
     <<Some(UrlText), Some(NonUrlText)>>,
     <<Some(UrlText), None>>}

\* Attribute lists of elements of the XLink vocabulary, of unknown type,
\* and of elements that carry no xlink:type.
XlinkAttributeLists ==
         {XlinkAttributes(Some(<<"simple">>), t[1], t[2], t[3]) :
              t \in SimpleFields}
    \cup {XlinkAttributes(Some(<<"locator">>), t[1], t[2], None) :
              t \in LocatorFields}
    \cup {XlinkAttributes(Some(<<"arc">>), None, None, Some(t)) : t \in Texts}
    \cup {XlinkAttributes(Some(<<"resource">>), None, Some(t), None) : t \in Texts}
    \cup {XlinkAttributes(Some(<<"title">>), None, None, None)}
    \cup {XlinkAttributes(Some(<<"bogus">>), None, None, None)}
    \cup {XlinkAttributes(None, Some(UrlText), None, None)}

StartElement(name, attributes, namespace) ==
    [type |-> "StartElement", name |-> name,
     attributes |-> attributes, namespace |-> namespace]

EndElement(name) == [type |-> "EndElement", name |-> name]
Comment(text) == [type |-> "Comment", text |-> text]
Characters(text) == [type |-> "Characters", text |-> text]
CData(text) == [type |-> "CData", text |-> text]
Whitespace == [type |-> "Whitespace"]
EndDocument == [type |-> "EndDocument"]
ReaderError == [type |-> "Err"]
NotStarted == [type |-> "NotStarted"]

(***************************************************************************)
(* State.                                                                  *)
(***************************************************************************)
VARIABLES
    scraper,         \* which scrape function runs: "xml", "href" or "xlink"
    pc,              \* "Loop" (xml), "Idle" / "InsideExtended" (xlink), "Done"
    events,          \* reader: everything parser.next() has produced
    last,            \* the latest result of parser.next()
    n,               \* number of events produced; parser.position()
    open,            \* reader: the open elements, innermost last
    seen_root,       \* reader: the root element has been started
    collector,       \* scrape: collector
    ret,             \* scrape_from_xlink_extended: ret
    ext_name,        \* scrape_from_xlink_extended: xlink_extended_element.xml.name
    namespaces,      \* xml scrape: namespaces
    current_parent,  \* xml scrape: current_parent
    result           \* the value scrape returned

vars == <<scraper, pc, events, last, n, open, seen_root, collector, ret, ext_name,
          namespaces, current_parent, result>>


Running == [tag |-> "Running", links |-> << >>, err |-> ""]
Ok(links) == [tag |-> "Ok", links |-> links, err |-> ""]
Err(e) == [tag |-> "Err", links |-> << >>, err |-> e]

(***************************************************************************)
(* The reader (xml-rs EventReader).                                        *)
(***************************************************************************)
DefaultNamespace == << >>

XlinkStartElements ==
    {StartElement("a", << >>, DefaultNamespace)}
        \cup {StartElement("a", XlinkAttributes(Some(<<"extended">>), None, Some(t), None),
                           DefaultNamespace) : t \in Texts}
        \cup {StartElement("b", al, DefaultNamespace) : al \in XlinkAttributeLists}

XlinkEvents ==
    XlinkStartElements
        \cup {EndElement(nm) : nm \in Names}
        \cup {Characters(UrlText), EndDocument, ReaderError}

\* In-scope namespace bindings of a start element, in prefix order
\* (xml-rs keeps them in a BTreeMap).
Binding(prefix, uri) == [prefix |-> prefix, uri |-> uri]

NamespaceMaps ==
    {<< >>,
     << Binding("p", UrlText) >>,
     << Binding("p", NonUrlText) >>,
     << Binding("p", UrlText), Binding("q", UrlText) >>}

XmlAttributeLists ==
    {<< OwnedAttribute(None, "href", UrlText) >>,
     << OwnedAttribute(None, "src", UrlText),
        OwnedAttribute(None, "href", NonUrlText) >>,
     << OwnedAttribute(Some(XLINK_NAMESPACE), "href", UrlText),
        OwnedAttribute(None, "src", UrlText) >>}

XmlStartElements ==
    {StartElement("a", << >>, ns) : ns \in NamespaceMaps}
        \cup {StartElement("b", << >>, << >>)}
        \cup {StartElement("a", al, << >>) : al \in XmlAttributeLists}

XmlEvents ==
    XmlStartElements
        \cup {EndElement(nm) : nm \in Names}
        \cup {Comment(UrlText), Characters(UrlText), CData(UrlText),
              Whitespace, EndDocument, ReaderError}

\* The events a scraper is run on vary in the fields that scraper reads.
Events == IF scraper \in {"xml", "href"} THEN XmlEvents ELSE XlinkEvents

Prefixes(namespace) == {namespace[i].prefix : i \in 1..Len(namespace)}

\* parser.next() may return ev: the events form a well-formed prefix (end
\* tags match, text only inside the root, bound prefixes stay in scope in
\* the descendants), an error may come at any point, and the final result
\* is returned again on every later call.
ParserCanReturn(ev) ==
    IF last.type \in {"EndDocument", "Err"} THEN ev = last
    ELSE \/ ev.type = "Err"
         \/ ev.type = "EndDocument" /\ open = << >> /\ seen_root
         \/ /\ n < MaxEvents
            /\ \/ /\ ev.type = "StartElement"
                  /\ IF open = << >> THEN ~seen_root
                     ELSE Prefixes(open[Len(open)].namespace)
                              \subseteq Prefixes(ev.namespace)
               \/ ev.type = "EndElement" /\ open # << >>
                    /\ ev.name = open[Len(open)].name
               \/ ev.type \in {"Characters", "CData"} /\ open # << >>
               \/ ev.type \in {"Comment", "Whitespace"}

ParserNext(ev) ==
    /\ ParserCanReturn(ev)
    /\ last' = ev
    /\ IF last.type \in {"EndDocument", "Err"}
       THEN UNCHANGED <<events, n, open, seen_root>>
       ELSE /\ events' = Append(events, ev)
            /\ n' = n + 1
            /\ open' = CASE ev.type = "StartElement" ->
                              Append(open, [name |-> ev.name,
                                            namespace |-> ev.namespace])
                         [] ev.type = "EndElement" -> SubSeq(open, 1, Len(open) - 1)
                         [] OTHER -> open
            /\ seen_root' = (seen_root \/ ev.type = "StartElement")

(***************************************************************************)
(* formats::xml::xlink                                                     *)
(***************************************************************************)
get_xlink_attribute_value(key, attributes) ==
    LET hits == {i \in 1..Len(attributes) :
                    /\ attributes[i].local_name = key
                    /\ attributes[i].namespace = Some(XLINK_NAMESPACE)}
    IN  IF hits = {} THEN None
        ELSE Some(attributes[CHOOSE i \in hits : \A j \in hits : i <= j].value)

XlinkElement(kind, el, href, role, arcrole) ==
    [res |-> "Some", kind |-> kind, err |-> "", xml_name |-> el.name,
     href |-> href, role |-> role, arcrole |-> arcrole]

NotXlink == [res |-> "None", kind |-> "", err |-> "", xml_name |-> "",
             href |-> None, role |-> None, arcrole |-> None]

ClassifyErr(e) == [res |-> "Err", kind |-> "", err |-> e, xml_name |-> "",
                   href |-> None, role |-> None, arcrole |-> None]

\* elements::XlinkElement::try_from_xml_start_element
try_from_xml_start_element(el) ==
    LET type == get_xlink_attribute_value("type", el.attributes)
        href == get_xlink_attribute_value("href", el.attributes)
        role == get_xlink_attribute_value("role", el.attributes)
        arcrole == get_xlink_attribute_value("arcrole", el.attributes)
    IN  IF type = None THEN NotXlink
        ELSE CASE type[1] = <<"simple">> -> XlinkElement("Simple", el, href, role, arcrole)
               [] type[1] = <<"extended">> -> XlinkElement("Extended", el, None, role, None)
               [] type[1] = <<"locator">> ->
                      IF href = None THEN ClassifyErr("MissingRequiredAttributeError")
                      ELSE XlinkElement("Locator", el, href, role, None)
               [] type[1] = <<"arc">> -> XlinkElement("Arc", el, None, None, arcrole)
               [] type[1] = <<"resource">> -> XlinkElement("Resource", el, None, role, None)
               [] type[1] = <<"title">> -> XlinkElement("Title", el, None, None, None)
               [] OTHER -> ClassifyErr("UnknownTypeError")

XLinkLink(url, location, kind) == [url |-> url, location |-> location, kind |-> kind]

\* Variant: the value is emitted whole, without the URL filter.
scrape_from_option_string_unfiltered(role, link_type, position) ==
    IF role = None THEN << >>
    ELSE << XLinkLink(role[1], position, link_type) >>

scrape_from_option_string(role, link_type, position) ==
    IF role = None THEN << >>
    ELSE LET links == find_urls(role[1])
         IN  [i \in 1..Len(links) |-> XLinkLink(links[i].as_str, position, link_type)]

\* Variant: role is scraped before arcrole.
scrape_from_xlink_simple_role_first(xlink_element, position) ==
    scrape_from_option_string(xlink_element.href, "Simple", position)
        \o scrape_from_option_string(xlink_element.role, "Role", position)
        \o scrape_from_option_string(xlink_element.arcrole, "ArcRole", position)

scrape_from_xlink_simple(xlink_element, position) ==
    scrape_from_option_string(xlink_element.href, "Simple", position)
        \o scrape_from_option_string(xlink_element.arcrole, "ArcRole", position)
        \o scrape_from_option_string(xlink_element.role, "Role", position)

\* Outcome of a start element: links to append, an error, or entry into the
\* extended sub-loop with the initial value of ret.
Links(links) == [tag |-> "Ok", links |-> links, err |-> ""]
Fail(e) == [tag |-> "Err", links |-> << >>, err |-> e]
Enter(links) == [tag |-> "Enter", links |-> links, err |-> ""]

\* Variant: a locator at the top level gives its Extended link.
scrape_from_start_element_locator_anywhere(xml_start_element, position) ==
    LET xlink_element == try_from_xml_start_element(xml_start_element)
    IN  CASE xlink_element.res = "Err" -> Fail(xlink_element.err)
          [] xlink_element.res = "None" -> Links(<< >>)
          [] xlink_element.kind = "Simple" ->
                 Links(scrape_from_xlink_simple(xlink_element, position))
          [] xlink_element.kind = "Extended" ->
                 Enter(scrape_from_option_string(xlink_element.role, "Role", position))
          [] xlink_element.kind = "Locator" ->
                 Links(<< XLinkLink(xlink_element.href[1], position, "Extended") >>)
          [] xlink_element.kind = "Arc" -> Fail("ArcOutsideOfExtendedError")
          [] xlink_element.kind = "Resource" -> Fail("ResourceOutsideOfExtendedError")
          [] xlink_element.kind = "Title" -> Links(<< >>)

\* Variant: an element that cannot be classified is skipped.
scrape_from_start_element_tolerant(xml_start_element, position) ==
    LET xlink_element == try_from_xml_start_element(xml_start_element)
    IN  CASE xlink_element.res \in {"Err", "None"} -> Links(<< >>)
          [] xlink_element.kind = "Simple" ->
                 Links(scrape_from_xlink_simple(xlink_element, position))
          [] xlink_element.kind = "Extended" ->
                 Enter(scrape_from_option_string(xlink_element.role, "Role", position))
          [] xlink_element.kind = "Locator" -> Fail("LocatorOutsideOfExtendedError")
          [] xlink_element.kind = "Arc" -> Fail("ArcOutsideOfExtendedError")
          [] xlink_element.kind = "Resource" -> Fail("ResourceOutsideOfExtendedError")
          [] xlink_element.kind = "Title" -> Links(<< >>)

\* Variant: locator, arc and resource are ignored at the top level.
scrape_from_start_element_lenient(xml_start_element, position) ==
    LET xlink_element == try_from_xml_start_element(xml_start_element)
    IN  CASE xlink_element.res = "Err" -> Fail(xlink_element.err)
          [] xlink_element.res = "None" -> Links(<< >>)
          [] xlink_element.kind = "Simple" ->
                 Links(scrape_from_xlink_simple(xlink_element, position))
          [] xlink_element.kind = "Extended" ->
                 Enter(scrape_from_option_string(xlink_element.role, "Role", position))
          [] OTHER -> Links(<< >>)

\* Variant: an element without xlink:type is rejected.
scrape_from_start_element_strict(xml_start_element, position) ==
    LET xlink_element == try_from_xml_start_element(xml_start_element)
    IN  CASE xlink_element.res = "Err" -> Fail(xlink_element.err)
          [] xlink_element.res = "None" -> Fail("UnknownTypeError")
          [] xlink_element.kind = "Simple" ->
                 Links(scrape_from_xlink_simple(xlink_element, position))
          [] xlink_element.kind = "Extended" ->
                 Enter(scrape_from_option_string(xlink_element.role, "Role", position))
          [] xlink_element.kind = "Locator" -> Fail("LocatorOutsideOfExtendedError")
          [] xlink_element.kind = "Arc" -> Fail("ArcOutsideOfExtendedError")
          [] xlink_element.kind = "Resource" -> Fail("ResourceOutsideOfExtendedError")
          [] xlink_element.kind = "Title" -> Links(<< >>)

scrape_from_start_element(xml_start_element, position) ==
    LET xlink_element == try_from_xml_start_element(xml_start_element)
    IN  CASE xlink_element.res = "Err" -> Fail(xlink_element.err)
          [] xlink_element.res = "None" -> Links(<< >>)
          [] xlink_element.kind = "Simple" ->
                 Links(scrape_from_xlink_simple(xlink_element, position))
          [] xlink_element.kind = "Extended" ->
                 Enter(scrape_from_option_string(xlink_element.role, "Role", position))
          [] xlink_element.kind = "Locator" -> Fail("LocatorOutsideOfExtendedError")
          [] xlink_element.kind = "Arc" -> Fail("ArcOutsideOfExtendedError")
          [] xlink_element.kind = "Resource" -> Fail("ResourceOutsideOfExtendedError")
          [] xlink_element.kind = "Title" -> Links(<< >>)

\* Variant: simple and extended are ignored inside the sub-loop.
extended_start_element_lenient(xml_start_element, position) ==
    LET xlink_element == try_from_xml_start_element(xml_start_element)
    IN  CASE xlink_element.res = "Err" -> Fail(xlink_element.err)
          [] xlink_element.res = "None" -> Links(<< >>)
          [] xlink_element.kind = "Locator" ->
                 Links(<< XLinkLink(xlink_element.href[1], position, "Extended") >>
                         \o scrape_from_option_string(xlink_element.role, "Role", position))
          [] xlink_element.kind = "Arc" ->
                 Links(scrape_from_option_string(xlink_element.arcrole, "ArcRole", position))
          [] xlink_element.kind = "Resource" ->
                 Links(scrape_from_option_string(xlink_element.role, "Role", position))
          [] OTHER -> Links(<< >>)

\* Variant: the locator's href goes through the URL filter like the others.
extended_start_element_filtered(xml_start_element, position) ==
    LET xlink_element == try_from_xml_start_element(xml_start_element)
    IN  CASE xlink_element.res = "Err" -> Fail(xlink_element.err)
          [] xlink_element.res = "None" -> Links(<< >>)
          [] xlink_element.kind = "Simple" -> Fail("SimpleInsideOfExtendedError")
          [] xlink_element.kind = "Extended" -> Fail("ExtendedInsideOfExtendedError")
          [] xlink_element.kind = "Locator" ->
                 Links(scrape_from_option_string(xlink_element.href, "Extended", position)
                         \o scrape_from_option_string(xlink_element.role, "Role", position))
          [] xlink_element.kind = "Arc" ->
                 Links(scrape_from_option_string(xlink_element.arcrole, "ArcRole", position))
          [] xlink_element.kind = "Resource" ->
                 Links(scrape_from_option_string(xlink_element.role, "Role", position))
          [] xlink_element.kind = "Title" -> Links(<< >>)

\* Variant: only the direct children of the extended element are examined.
extended_start_element_children_only(xml_start_element, position) ==
    LET xlink_element == try_from_xml_start_element(xml_start_element)
    IN  CASE xlink_element.res = "Err" -> Fail(xlink_element.err)
          [] xlink_element.res = "None" -> Links(<< >>)
          [] open[Len(open)].name # ext_name -> Links(<< >>)
          [] xlink_element.kind = "Simple" -> Fail("SimpleInsideOfExtendedError")
          [] xlink_element.kind = "Extended" -> Fail("ExtendedInsideOfExtendedError")
          [] xlink_element.kind = "Locator" ->
                 Links(<< XLinkLink(xlink_element.href[1], position, "Extended") >>
                         \o scrape_from_option_string(xlink_element.role, "Role", position))
          [] xlink_element.kind = "Arc" ->
                 Links(scrape_from_option_string(xlink_element.arcrole, "ArcRole", position))
          [] xlink_element.kind = "Resource" ->
                 Links(scrape_from_option_string(xlink_element.role, "Role", position))
          [] xlink_element.kind = "Title" -> Links(<< >>)

\* Variant: a title inside an extended element is rejected.
extended_start_element_title_rejected(xml_start_element, position) ==
    LET xlink_element == try_from_xml_start_element(xml_start_element)
    IN  CASE xlink_element.res = "Err" -> Fail(xlink_element.err)
          [] xlink_element.res = "None" -> Links(<< >>)
          [] xlink_element.kind = "Simple" -> Fail("SimpleInsideOfExtendedError")
          [] xlink_element.kind = "Extended" -> Fail("ExtendedInsideOfExtendedError")
          [] xlink_element.kind = "Locator" ->
                 Links(<< XLinkLink(xlink_element.href[1], position, "Extended") >>
                         \o scrape_from_option_string(xlink_element.role, "Role", position))
          [] xlink_element.kind = "Arc" ->
                 Links(scrape_from_option_string(xlink_element.arcrole, "ArcRole", position))
          [] xlink_element.kind = "Resource" ->
                 Links(scrape_from_option_string(xlink_element.role, "Role", position))
          [] xlink_element.kind = "Title" -> Fail("UnknownTypeError")

\* The StartElement arm of the sub-loop of scrape_from_xlink_extended.
extended_start_element(xml_start_element, position) ==
    LET xlink_element == try_from_xml_start_element(xml_start_element)
    IN  CASE xlink_element.res = "Err" -> Fail(xlink_element.err)
          [] xlink_element.res = "None" -> Links(<< >>)
          [] xlink_element.kind = "Simple" -> Fail("SimpleInsideOfExtendedError")
          [] xlink_element.kind = "Extended" -> Fail("ExtendedInsideOfExtendedError")
          [] xlink_element.kind = "Locator" ->
                 Links(<< XLinkLink(xlink_element.href[1], position, "Extended") >>
                         \o scrape_from_option_string(xlink_element.role, "Role", position))
          [] xlink_element.kind = "Arc" ->
                 Links(scrape_from_option_string(xlink_element.arcrole, "ArcRole", position))
          [] xlink_element.kind = "Resource" ->
                 Links(scrape_from_option_string(xlink_element.role, "Role", position))
          [] xlink_element.kind = "Title" -> Links(<< >>)

\* Variant: no end tag leaves the sub-loop.
extended_end_never_breaks(name, extended_name) == FALSE

\* Variant: any end tag leaves the sub-loop.
extended_end_breaks_always(name, extended_name) == TRUE

\* The EndElement arm of the sub-loop: break on name equality.
extended_end_breaks(name, extended_name) == name = extended_name

xml_vars == <<namespaces, current_parent>>

\* xlink::scrape, StartElement arm.
XlinkStartElement ==
    /\ scraper = "xlink" /\ pc = "Idle"
    /\ \E ev \in Events :
        /\ ev.type = "StartElement"
        /\ ParserNext(ev)
        /\ LET list == scrape_from_start_element(ev, n')
           IN  CASE list.tag = "Err" ->
                        /\ result' = Err(list.err)
                        /\ pc' = "Done"
                        /\ UNCHANGED <<collector, ret, ext_name>>
                 [] list.tag = "Ok" ->
                        /\ collector' = collector \o list.links
                        /\ UNCHANGED <<pc, ret, ext_name, result>>
                 [] list.tag = "Enter" ->
                        /\ ret' = list.links
                        /\ ext_name' = ev.name
                        /\ pc' = "InsideExtended"
                        /\ UNCHANGED <<collector, result>>
    /\ UNCHANGED <<scraper, xml_vars>>

\* xlink::scrape, EndDocument arm: break and return Ok(collector).
XlinkEndDocument ==
    /\ scraper = "xlink" /\ pc = "Idle"
    /\ ParserNext(EndDocument)
    /\ result' = Ok(collector)
    /\ pc' = "Done"
    /\ UNCHANGED <<scraper, collector, ret, ext_name, xml_vars>>

\* xlink::scrape: parser.next() is not Ok, the while-let loop ends and
\* Ok(collector) is returned.
XlinkReaderError ==
    /\ scraper = "xlink" /\ pc = "Idle"
    /\ ParserNext(ReaderError)
    /\ result' = Ok(collector)
    /\ pc' = "Done"
    /\ UNCHANGED <<scraper, collector, ret, ext_name, xml_vars>>

\* xlink::scrape, the catch-all arm.
XlinkOtherEvent ==
    /\ scraper = "xlink" /\ pc = "Idle"
    /\ \E ev \in Events :
        /\ ev.type \notin {"StartElement", "EndDocument", "Err"}
        /\ ParserNext(ev)
    /\ UNCHANGED <<scraper, pc, collector, ret, ext_name, result, xml_vars>>

\* scrape_from_xlink_extended, StartElement arm.
ExtendedStartElement ==
    /\ scraper = "xlink" /\ pc = "InsideExtended"
    /\ \E ev \in Events :
        /\ ev.type = "StartElement"
        /\ ParserNext(ev)
        /\ LET links == extended_start_element(ev, n')
           IN  IF links.tag = "Err"
               THEN /\ result' = Err(links.err)
                    /\ pc' = "Done"
                    /\ UNCHANGED <<collector, ret, ext_name>>
               ELSE /\ ret' = ret \o links.links
                    /\ UNCHANGED <<pc, collector, ext_name, result>>
    /\ UNCHANGED <<scraper, xml_vars>>

\* scrape_from_xlink_extended, EndElement arm; on break the caller appends
\* the returned list to collector.
ExtendedEndElement ==
    /\ scraper = "xlink" /\ pc = "InsideExtended"
    /\ \E ev \in Events :
        /\ ev.type = "EndElement"
        /\ ParserNext(ev)
        /\ IF extended_end_breaks(ev.name, ext_name)
           THEN /\ collector' = collector \o ret
                /\ ret' = << >>
                /\ pc' = "Idle"
                /\ UNCHANGED <<ext_name, result>>
           ELSE UNCHANGED <<pc, collector, ret, ext_name, result>>
    /\ UNCHANGED <<scraper, xml_vars>>

\* scrape_from_xlink_extended, the catch-all arm (EndDocument included).
ExtendedOtherEvent ==
    /\ scraper = "xlink" /\ pc = "InsideExtended"
    /\ \E ev \in Events :
        /\ ev.type \notin {"StartElement", "EndElement", "Err"}
        /\ ParserNext(ev)
    /\ UNCHANGED <<scraper, pc, collector, ret, ext_name, result, xml_vars>>

\* scrape_from_xlink_extended: parser.next() is not Ok, the while-let loop
\* ends, Ok(ret) is returned and the caller appends it to collector.
ExtendedReaderError ==
    /\ scraper = "xlink" /\ pc = "InsideExtended"
    /\ ParserNext(ReaderError)
    /\ collector' = collector \o ret
    /\ ret' = << >>
    /\ pc' = "Idle"
    /\ UNCHANGED <<scraper, ext_name, result, xml_vars>>

(***************************************************************************)
(* formats::xml                                                            *)
(***************************************************************************)
NamespaceOccurrence(namespace, namespace_uri, first_occurrence) ==
    [namespace |-> namespace, namespace_uri |-> namespace_uri,
     first_occurrence |-> first_occurrence]

\* impl PartialEq for NamespaceOccurrence
ns_eq(self, other) ==
    self.namespace_uri = other.namespace_uri /\ self.namespace = other.namespace

contains(list, ns_occurence) ==
    \E i \in 1..Len(list) : ns_eq(list[i], ns_occurence)

\* Variant: the occurrence is pushed without the contains test.
push_always(list, ns_occurence) == Append(list, ns_occurence)

\* One step of the for_each over the in-scope bindings.
push_if_new(list, ns_occurence) ==
    IF ~contains(list, ns_occurence) THEN Append(list, ns_occurence) ELSE list

RECURSIVE register_namespaces(_, _, _, _)
register_namespaces(list, namespace, i, position) ==
    IF i > Len(namespace) THEN list
    ELSE register_namespaces(
             push_if_new(list, NamespaceOccurrence(namespace[i].prefix,
                                                   namespace[i].uri, position)),
             namespace, i + 1, position)

AttributeKind(attribute) ==
    [tag |-> "Attribute", attribute |-> Some(attribute),
     parent_tag_name |-> None, namespace |-> None]
CommentKind ==
    [tag |-> "Comment", attribute |-> None,
     parent_tag_name |-> None, namespace |-> None]
PlainTextKind(parent) ==
    [tag |-> "PlainText", attribute |-> None,
     parent_tag_name |-> parent, namespace |-> None]
CDataKind(parent) ==
    [tag |-> "CData", attribute |-> None,
     parent_tag_name |-> parent, namespace |-> None]
NameSpaceKind(prefix) ==
    [tag |-> "NameSpace", attribute |-> None,
     parent_tag_name |-> None, namespace |-> Some(prefix)]

XmlLink(url, location, kind) == [url |-> url, location |-> location, kind |-> kind]

\* Variant: the links are located at the event before the current one.
links_of_text_at_previous(text, position, kind) ==
    LET links == find_urls(text)
    IN  [i \in 1..Len(links) |-> XmlLink(links[i].as_str, position - 1, kind)]

\* Variant: the whole text is emitted once when it holds a match.
links_of_whole_text(text, position, kind) ==
    IF find_urls(text) = << >> THEN << >>
    ELSE << XmlLink(text, position, kind) >>

\* find_urls(text).iter().map(|link| XmlLink {..}).collect()
links_of_text(text, position, kind) ==
    LET links == find_urls(text)
    IN  [i \in 1..Len(links) |-> XmlLink(links[i].as_str, position, kind)]

\* Variant: each attribute is located at its own offset after the element.
RECURSIVE attributes_from_offset(_, _, _)
attributes_from_offset(attributes, i, position) ==
    IF i > Len(attributes) THEN << >>
    ELSE links_of_text(attributes[i].value, position + i - 1,
                       AttributeKind(attributes[i]))
             \o attributes_from_offset(attributes, i + 1, position)

RECURSIVE attributes_from(_, _, _)
attributes_from(attributes, i, position) ==
    IF i > Len(attributes) THEN << >>
    ELSE links_of_text(attributes[i].value, position, AttributeKind(attributes[i]))
             \o attributes_from(attributes, i + 1, position)

scrape_from_xml_start_element_attributes(attributes, position) ==
    attributes_from(attributes, 1, position)

\* Variant: one link per match of the URI, with the matched substring.
RECURSIVE namespace_links_per_match(_, _)
namespace_links_per_match(list, i) ==
    IF i > Len(list) THEN << >>
    ELSE links_of_text(list[i].namespace_uri, list[i].first_occurrence,
                       NameSpaceKind(list[i].namespace))
             \o namespace_links_per_match(list, i + 1)

\* Variant: the registered bindings are flushed last to first.
RECURSIVE namespace_links_reversed(_, _)
namespace_links_reversed(list, i) ==
    IF i > Len(list) THEN << >>
    ELSE namespace_links_reversed(list, i + 1)
             \o (IF Len(find_urls(list[i].namespace_uri)) = 0 THEN << >>
                 ELSE << XmlLink(list[i].namespace_uri, list[i].first_occurrence,
                                 NameSpaceKind(list[i].namespace)) >>)

\* The for_each over namespaces after the event loop.
RECURSIVE namespace_links(_, _)
namespace_links(list, i) ==
    IF i > Len(list) THEN << >>
    ELSE (IF Len(find_urls(list[i].namespace_uri)) = 0 THEN << >>
          ELSE << XmlLink(list[i].namespace_uri, list[i].first_occurrence,
                          NameSpaceKind(list[i].namespace)) >>)
             \o namespace_links(list, i + 1)

xlink_vars == <<ret, ext_name>>

\* xml::scrape, StartElement arm.
XmlStartElement ==
    /\ scraper = "xml" /\ pc = "Loop"
    /\ \E ev \in Events :
        /\ ev.type = "StartElement"
        /\ ParserNext(ev)
        /\ namespaces' = register_namespaces(namespaces, ev.namespace, 1, n')
        /\ current_parent' = Some(ev.name)
        /\ collector' = collector
               \o scrape_from_xml_start_element_attributes(ev.attributes, n')
    /\ UNCHANGED <<scraper, pc, result, xlink_vars>>

\* xml::scrape, Comment arm.
XmlComment ==
    /\ scraper = "xml" /\ pc = "Loop"
    /\ \E ev \in Events :
        /\ ev.type = "Comment"
        /\ ParserNext(ev)
        /\ collector' = collector \o links_of_text(ev.text, n', CommentKind)
    /\ UNCHANGED <<scraper, pc, result, namespaces, current_parent, xlink_vars>>

\* xml::scrape, Characters arm.
XmlCharacters ==
    /\ scraper = "xml" /\ pc = "Loop"
    /\ \E ev \in Events :
        /\ ev.type = "Characters"
        /\ ParserNext(ev)
        /\ collector' = collector
               \o links_of_text(ev.text, n', PlainTextKind(current_parent))
    /\ UNCHANGED <<scraper, pc, result, namespaces, current_parent, xlink_vars>>

\* xml::scrape, CData arm.
XmlCData ==
    /\ scraper = "xml" /\ pc = "Loop"
    /\ \E ev \in Events :
        /\ ev.type = "CData"
        /\ ParserNext(ev)
        /\ collector' = collector
               \o links_of_text(ev.text, n', CDataKind(current_parent))
    /\ UNCHANGED <<scraper, pc, result, namespaces, current_parent, xlink_vars>>

\* xml::scrape, the catch-all arm.
XmlOtherEvent ==
    /\ scraper = "xml" /\ pc = "Loop"
    /\ \E ev \in Events :
        /\ ev.type \notin {"StartElement", "Comment", "Characters", "CData",
                           "EndDocument", "Err"}
        /\ ParserNext(ev)
    /\ UNCHANGED <<scraper, pc, collector, result, namespaces, current_parent,
                   xlink_vars>>

\* xml::scrape, EndDocument arm: break, flush the namespaces, Ok(collector).
XmlEndDocument ==
    /\ scraper = "xml" /\ pc = "Loop"
    /\ ParserNext(EndDocument)
    /\ collector' = collector \o namespace_links(namespaces, 1)
    /\ result' = Ok(collector')
    /\ pc' = "Done"
    /\ UNCHANGED <<scraper, namespaces, current_parent, xlink_vars>>

\* xml::scrape: parser.next() is not Ok, the while-let loop ends, the
\* namespaces are flushed and Ok(collector) is returned.
XmlReaderError ==
    /\ scraper = "xml" /\ pc = "Loop"
    /\ ParserNext(ReaderError)
    /\ collector' = collector \o namespace_links(namespaces, 1)
    /\ result' = Ok(collector')
    /\ pc' = "Done"
    /\ UNCHANGED <<scraper, namespaces, current_parent, xlink_vars>>

\* xml::scrape as a function of the events the reader produces: the loop
\* from event i on, then the flush of the namespaces.
RECURSIVE scrape_loop(_, _, _, _, _)
scrape_loop(evs, i, links, nss, parent) ==
    IF i > Len(evs) \/ evs[i].type \in {"EndDocument", "Err"}
    THEN Ok(links \o namespace_links(nss, 1))
    ELSE CASE evs[i].type = "StartElement" ->
                  scrape_loop(evs, i + 1,
                      links \o scrape_from_xml_start_element_attributes(
                                   evs[i].attributes, i),
                      register_namespaces(nss, evs[i].namespace, 1, i),
                      Some(evs[i].name))
           [] evs[i].type = "Comment" ->
                  scrape_loop(evs, i + 1,
                      links \o links_of_text(evs[i].text, i, CommentKind),
                      nss, parent)
           [] evs[i].type = "Characters" ->
                  scrape_loop(evs, i + 1,
                      links \o links_of_text(evs[i].text, i, PlainTextKind(parent)),
                      nss, parent)
           [] evs[i].type = "CData" ->
                  scrape_loop(evs, i + 1,
                      links \o links_of_text(evs[i].text, i, CDataKind(parent)),
                      nss, parent)
           [] OTHER -> scrape_loop(evs, i + 1, links, nss, parent)

xml_scrape(evs) == scrape_loop(evs, 1, << >>, << >>, None)

(***************************************************************************)
(* formats::xml::scrape_from_href_tags                                     *)
(***************************************************************************)
\* Variant: only attributes without namespace count as href.
is_href_link_unprefixed(link) ==
    /\ link.kind.tag = "Attribute"
    /\ link.kind.attribute[1].local_name = "href"
    /\ link.kind.attribute[1].namespace = None

\* The filter closure: an Attribute link whose local name is href.
is_href_link(link) ==
    /\ link.kind.tag = "Attribute"
    /\ link.kind.attribute[1].local_name = "href"

\* scrape_from_href_tags, StartElement arm.
HrefStartElement ==
    /\ scraper = "href" /\ pc = "Loop"
    /\ \E ev \in Events :
        /\ ev.type = "StartElement"
        /\ ParserNext(ev)
        /\ collector' = collector
               \o SelectSeq(scrape_from_xml_start_element_attributes(ev.attributes, n'),
                            is_href_link)
    /\ UNCHANGED <<scraper, pc, result, xml_vars, xlink_vars>>

\* scrape_from_href_tags, the catch-all arm.
HrefOtherEvent ==
    /\ scraper = "href" /\ pc = "Loop"
    /\ \E ev \in Events :
        /\ ev.type \notin {"StartElement", "EndDocument", "Err"}
        /\ ParserNext(ev)
    /\ UNCHANGED <<scraper, pc, collector, result, xml_vars, xlink_vars>>

\* scrape_from_href_tags, EndDocument arm: break and return Ok(collector).
HrefEndDocument ==
    /\ scraper = "href" /\ pc = "Loop"
    /\ ParserNext(EndDocument)
    /\ result' = Ok(collector)
    /\ pc' = "Done"
    /\ UNCHANGED <<scraper, collector, xml_vars, xlink_vars>>

\* scrape_from_href_tags: parser.next() is not Ok, the while-let loop ends
\* and Ok(collector) is returned.
HrefReaderError ==
    /\ scraper = "href" /\ pc = "Loop"
    /\ ParserNext(ReaderError)
    /\ result' = Ok(collector)
    /\ pc' = "Done"
    /\ UNCHANGED <<scraper, collector, xml_vars, xlink_vars>>

Init ==
    /\ scraper \in {"xml", "href", "xlink"}
    /\ pc = IF scraper \in {"xml", "href"} THEN "Loop" ELSE "Idle"
    /\ events = << >>
    /\ last = NotStarted
    /\ n = 0
    /\ open = << >>
    /\ seen_root = FALSE
    /\ collector = << >>
    /\ ret = << >>
    /\ ext_name = ""
    /\ namespaces = << >>
    /\ current_parent = None
    /\ result = Running

Next ==
    \/ XmlStartElement
    \/ XmlComment
    \/ XmlCharacters
    \/ XmlCData
    \/ XmlOtherEvent
    \/ XmlEndDocument
    \/ XmlReaderError
    \/ HrefStartElement
    \/ HrefOtherEvent
    \/ HrefEndDocument
    \/ HrefReaderError
    \/ XlinkStartElement
    \/ XlinkEndDocument
    \/ XlinkReaderError
    \/ XlinkOtherEvent
    \/ ExtendedStartElement
    \/ ExtendedEndElement
    \/ ExtendedOtherEvent
    \/ ExtendedReaderError

Spec == Init /\ [][Next]_vars

\* A scrape is one sequential call: whenever it has a step that changes its
\* state, it takes one.
SpecLive == Init /\ [][Next]_vars /\ WF_vars(Next)

(***************************************************************************)
(* Properties.                                                             *)
(***************************************************************************)
\* The step read a new event from the reader.
ReadsNewEvent == Len(events') = Len(events) + 1

\* Every link the XLink scraper holds, in the order of emission.
AllLinks == collector \o ret

\* The links a step of the XLink scraper has emitted.
EmittedXlink == SubSeq(AllLinks', Len(AllLinks) + 1, Len(AllLinks'))

\* The links a step of the generic scraper has emitted.
EmittedXml == SubSeq(collector', Len(collector) + 1, Len(collector'))

Classified(ev) == try_from_xml_start_element(ev)

\* One link of the given kind per URL match of an optional value.
ExpectedMatches(opt, kind, position) ==
    IF opt = None THEN << >>
    ELSE [i \in 1..Len(find_urls(opt[1])) |->
             [url |-> find_urls(opt[1])[i].as_str,
              location |-> position, kind |-> kind]]

\* C1: when the tokenizer fails before end-of-document, the generic scrape
\* returns that error and no links.
C1_ErrorSurfaced ==
    (scraper = "xml" /\ pc = "Done" /\ last.type = "Err")
        => (result.tag = "Err" /\ result.err = "XmlReaderError"
              /\ result.links = << >>)

\* C2: when the tokenizer fails, in Idle or inside the extended sub-loop,
\* the XLink scrape returns the tokenizer error and no links.
C2_ErrorSurfaced ==
    (scraper = "xlink" /\ pc = "Done" /\ \E k \in 1..Len(events) : events[k].type = "Err")
        => (result.tag = "Err" /\ result.err = "XmlReaderError"
              /\ result.links = << >>)

HasBinding(ev, prefix, uri) ==
    /\ ev.type = "StartElement"
    /\ \E i \in 1..Len(ev.namespace) :
          ev.namespace[i].prefix = prefix /\ ev.namespace[i].uri = uri

StartsWith(prefix, uri) ==
    {k \in 1..Len(events) : HasBinding(events[k], prefix, uri)}

\* The position of the first start event whose bindings hold (prefix, uri);
\* 0 when there is none.
FirstStart(prefix, uri) ==
    IF StartsWith(prefix, uri) = {} THEN 0
    ELSE CHOOSE k \in StartsWith(prefix, uri) :
             \A j \in StartsWith(prefix, uri) : k <= j

NameSpaceLinks(links) == {i \in 1..Len(links) : links[i].kind.tag = "NameSpace"}

\* C3: the namespace registry never holds a (prefix, URI) pair twice, the
\* position stored for a pair is that of the first start event whose
\* bindings held it, and the output has at most one Namespace link per
\* pair, located at that position.
C3_NamespaceOnce ==
    scraper = "xml" =>
        /\ \A i, j \in 1..Len(namespaces) :
              (/\ namespaces[i].namespace = namespaces[j].namespace
               /\ namespaces[i].namespace_uri = namespaces[j].namespace_uri)
                  => i = j
        /\ \A i \in 1..Len(namespaces) :
              /\ FirstStart(namespaces[i].namespace, namespaces[i].namespace_uri) # 0
              /\ namespaces[i].first_occurrence =
                     FirstStart(namespaces[i].namespace, namespaces[i].namespace_uri)
        /\ pc = "Done" =>
              /\ \A i, j \in NameSpaceLinks(result.links) :
                    (/\ result.links[i].kind.namespace = result.links[j].kind.namespace
                     /\ result.links[i].url = result.links[j].url)
                        => i = j
              /\ \A i \in NameSpaceLinks(result.links) :
                    result.links[i].location =
                        FirstStart(result.links[i].kind.namespace[1], result.links[i].url)

\* A binding recurs on a nested element and its link is in the output once.
C3_Witness ==
    /\ scraper = "xml" /\ pc = "Done"
    /\ \E k1, k2 \in StartsWith("p", UrlText) : k1 < k2
    /\ \E i \in NameSpaceLinks(result.links) :
          /\ result.links[i].url = UrlText
          /\ result.links[i].kind.namespace = Some("p")
          /\ result.links[i].location = FirstStart("p", UrlText)

OutsideError(kind) ==
    CASE kind = "Locator" -> "LocatorOutsideOfExtendedError"
      [] kind = "Arc" -> "ArcOutsideOfExtendedError"
      [] kind = "Resource" -> "ResourceOutsideOfExtendedError"

\* C4: a start element classified as Locator, Arc or Resource that is
\* processed in state Idle fails the scrape with the matching
\* outside-of-extended error, and no links are returned.
C4_OutsideOfExtended ==
    [][(/\ scraper = "xlink" /\ pc = "Idle"
        /\ ReadsNewEvent
        /\ last'.type = "StartElement"
        /\ Classified(last').res = "Some"
        /\ Classified(last').kind \in {"Locator", "Arc", "Resource"})
          => (/\ pc' = "Done"
              /\ result'.tag = "Err"
              /\ result'.err = OutsideError(Classified(last').kind)
              /\ result'.links = << >>)]_vars

\* An arc at the top level fails the scrape after links were collected.
C4_Witness ==
    /\ scraper = "xlink" /\ pc = "Done"
    /\ result.tag = "Err" /\ result.err = "ArcOutsideOfExtendedError"
    /\ collector # << >>

InsideError(kind) ==
    CASE kind = "Simple" -> "SimpleInsideOfExtendedError"
      [] kind = "Extended" -> "ExtendedInsideOfExtendedError"

\* C5: a start element classified as Simple or Extended that is processed
\* in state InsideExtended fails the scrape with the matching
\* inside-of-extended error and returns no links; the sub-loop is not
\* entered again while it runs.
C5_InsideOfExtended ==
    [][/\ (/\ scraper = "xlink" /\ pc = "InsideExtended"
           /\ ReadsNewEvent
           /\ last'.type = "StartElement"
           /\ Classified(last').res = "Some"
           /\ Classified(last').kind \in {"Simple", "Extended"})
             => (/\ pc' = "Done"
                 /\ result'.tag = "Err"
                 /\ result'.err = InsideError(Classified(last').kind)
                 /\ result'.links = << >>)
       /\ (pc = "InsideExtended" /\ pc' = "InsideExtended")
             => (/\ ext_name' = ext_name
                 /\ Len(ret') >= Len(ret)
                 /\ SubSeq(ret', 1, Len(ret)) = ret)]_vars

\* An extended element inside the sub-loop fails the scrape after the
\* sub-loop has gathered links.
C5_Witness ==
    /\ scraper = "xlink" /\ pc = "Done"
    /\ result.tag = "Err" /\ result.err = "ExtendedInsideOfExtendedError"
    /\ ret # << >>

\* C6: the state goes from InsideExtended back to Idle at the element-end
\* event that carries the name of the enclosing extended element, and at no
\* other event; depth is not tracked.
C6_ExitOnNameEquality ==
    [][(/\ scraper = "xlink" /\ pc = "InsideExtended"
        /\ ReadsNewEvent
        /\ last'.type # "Err")
          => (pc' = "Idle" <=> (last'.type = "EndElement" /\ last'.name = ext_name))]_vars

\* The end tag of a same-named descendant has left the sub-loop, and the
\* locator that follows inside the extended element is rejected as top level.
C6_Witness ==
    /\ scraper = "xlink" /\ pc = "Done"
    /\ Len(events) = 4
    /\ events[1].type = "StartElement" /\ events[1].name = "a"
    /\ Classified(events[1]).kind = "Extended"
    /\ events[2].type = "StartElement" /\ events[2].name = "a"
    /\ Classified(events[2]).res = "None"
    /\ events[3] = EndElement("a")
    /\ events[4].type = "StartElement"
    /\ Classified(events[4]).kind = "Locator"
    /\ Len(open) = 2
    /\ result.err = "LocatorOutsideOfExtendedError"

NoMatch(opt) == opt # None /\ find_urls(opt[1]) = << >>

KindsOfAttribute(key) ==
    CASE key = "href" -> {"Simple", "Extended"}
      [] key = "role" -> {"Role"}
      [] key = "arcrole" -> {"ArcRole"}

\* The generic scraper emits no Attribute link for an attribute without match.
NoLinkForUnmatchedXmlAttribute ==
    (scraper = "xml" /\ ReadsNewEvent /\ last'.type = "StartElement")
        => \A i \in 1..Len(last'.attributes) :
              find_urls(last'.attributes[i].value) = << >>
                  => \A k \in 1..Len(EmittedXml) :
                        EmittedXml[k].kind.attribute # Some(last'.attributes[i])

\* C7 as stated: an attribute whose value holds no URL match causes no link
\* for that attribute, in both scrapers and for href, role and arcrole of
\* every linking element.
C7_NoLinkWithoutMatch ==
    [][/\ NoLinkForUnmatchedXmlAttribute
       /\ (scraper = "xlink" /\ ReadsNewEvent /\ last'.type = "StartElement")
             => \A key \in {"href", "role", "arcrole"} :
                   NoMatch(get_xlink_attribute_value(key, last'.attributes))
                       => \A k \in 1..Len(EmittedXlink) :
                             EmittedXlink[k].kind \notin KindsOfAttribute(key)]_vars

\* C7 amended: as above, except for the href of a Locator inside an
\* extended element, which is emitted whatever its value.
C7_NoLinkWithoutMatchButLocatorHref ==
    [][/\ NoLinkForUnmatchedXmlAttribute
       /\ (scraper = "xlink" /\ ReadsNewEvent /\ last'.type = "StartElement")
             => \A key \in {"href", "role", "arcrole"} :
                   (/\ NoMatch(get_xlink_attribute_value(key, last'.attributes))
                    /\ ~(key = "href" /\ Classified(last').kind = "Locator"))
                       => \A k \in 1..Len(EmittedXlink) :
                             EmittedXlink[k].kind \notin KindsOfAttribute(key)]_vars

\* A simple element whose three linking attributes hold no URL was
\* processed and nothing was emitted.
C7_Witness ==
    /\ scraper = "xlink" /\ pc = "Idle"
    /\ last.type = "StartElement"
    /\ Classified(last).kind = "Simple"
    /\ \A key \in {"href", "role", "arcrole"} :
          NoMatch(get_xlink_attribute_value(key, last.attributes))
    /\ collector = << >>

\* C8: a Locator processed in state InsideExtended emits one Extended link
\* whose url is the href value verbatim, followed by one Role link per URL
\* match of its role attribute.
C8_LocatorVerbatim ==
    [][(/\ scraper = "xlink" /\ pc = "InsideExtended"
        /\ ReadsNewEvent
        /\ last'.type = "StartElement"
        /\ Classified(last').res = "Some"
        /\ Classified(last').kind = "Locator")
          => (/\ pc' = "InsideExtended"
              /\ collector' = collector
              /\ EmittedXlink =
                    << [url |-> get_xlink_attribute_value("href", last'.attributes)[1],
                        location |-> Len(events'), kind |-> "Extended"] >>
                    \o ExpectedMatches(
                           get_xlink_attribute_value("role", last'.attributes),
                           "Role", Len(events')))]_vars

\* A locator whose href is not URL-shaped was emitted as Extended link,
\* followed by the Role links of its role.
C8_Witness ==
    /\ scraper = "xlink" /\ pc = "InsideExtended"
    /\ last.type = "StartElement"
    /\ Classified(last).kind = "Locator"
    /\ Len(ret) = 3
    /\ ret[1].kind = "Extended" /\ ret[1].url = NonUrlText
    /\ ret[2].kind = "Role" /\ ret[2].url = << "https://a.test" >>
    /\ ret[3].kind = "Role" /\ ret[3].url = << "https://b.test" >>

\* C9: a Simple element processed in state Idle emits one link per URL
\* match of its href, arcrole and role, of kind Simple, ArcRole and Role, in
\* that order, nothing for absent or unmatched attributes, and stays Idle.
C9_SimpleLinks ==
    [][(/\ scraper = "xlink" /\ pc = "Idle"
        /\ ReadsNewEvent
        /\ last'.type = "StartElement"
        /\ Classified(last').res = "Some"
        /\ Classified(last').kind = "Simple")
          => (/\ pc' = "Idle"
              /\ result' = result
              /\ collector' = collector
                    \o ExpectedMatches(
                           get_xlink_attribute_value("href", last'.attributes),
                           "Simple", Len(events'))
                    \o ExpectedMatches(
                           get_xlink_attribute_value("arcrole", last'.attributes),
                           "ArcRole", Len(events'))
                    \o ExpectedMatches(
                           get_xlink_attribute_value("role", last'.attributes),
                           "Role", Len(events')))]_vars

\* A simple element with URLs in href, arcrole and role was processed.
C9_Witness ==
    /\ scraper = "xlink" /\ pc = "Idle"
    /\ Len(events) = 1
    /\ Classified(last).kind = "Simple"
    /\ [i \in 1..Len(collector) |-> collector[i].kind]
          = << "Simple", "Simple", "ArcRole", "ArcRole", "Role", "Role" >>

NoLinkingElement ==
    \A k \in 1..Len(events) :
        /\ events[k].type # "Err"
        /\ events[k].type = "StartElement" => Classified(events[k]).res = "None"

\* C10: on a well-formed event stream without linking elements the XLink
\* scrape stays Idle, raises no error and returns the empty list.
C10_NoLinkingElements ==
    (scraper = "xlink" /\ NoLinkingElement)
        => /\ pc \in {"Idle", "Done"}
           /\ collector = << >>
           /\ result.tag # "Err"
           /\ pc = "Done" => (result.tag = "Ok" /\ result.links = << >>)

\* A document of elements without xlink:type was scraped to its end.
C10_Witness ==
    /\ scraper = "xlink" /\ pc = "Done"
    /\ NoLinkingElement
    /\ last = EndDocument
    /\ \E k \in 1..Len(events) :
          events[k].type = "StartElement" /\ events[k].attributes # << >>
    /\ result.tag = "Ok" /\ result.links = << >>

\* The emitted links that belong to attribute a and carry url u.
EmittedFor(a, u) ==
    {k \in 1..Len(EmittedXml) :
        /\ EmittedXml[k].kind.tag = "Attribute"
        /\ EmittedXml[k].kind.attribute = Some(a)
        /\ EmittedXml[k].url = u}

\* The url and the kind of the emitted links, in order.
EmittedUrlAndKind ==
    [k \in 1..Len(EmittedXml) |-> <<EmittedXml[k].url, EmittedXml[k].kind.tag>>]

ExpectedUrlAndKind(text, tag) ==
    [k \in 1..Len(find_urls(text)) |-> <<find_urls(text)[k].as_str, tag>>]

TextKindOf(type) ==
    CASE type = "Comment" -> "Comment"
      [] type = "Characters" -> "PlainText"
      [] type = "CData" -> "CData"

\* C11: in the generic scraper every URL match of an attribute value, a
\* comment, a character-data event or a CDATA event yields exactly one link
\* whose url is the matched substring and whose kind is Attribute, Comment,
\* PlainText or CData; every other event emits no link and changes no state.
C11_OneLinkPerMatch ==
    [][(scraper = "xml" /\ pc = "Loop" /\ ReadsNewEvent) =>
         /\ last'.type = "StartElement" =>
               /\ \A i \in 1..Len(last'.attributes) :
                     \A m \in 1..Len(find_urls(last'.attributes[i].value)) :
                        Cardinality(EmittedFor(last'.attributes[i],
                            find_urls(last'.attributes[i].value)[m].as_str)) = 1
               /\ \A k \in 1..Len(EmittedXml) :
                     /\ EmittedXml[k].kind.tag = "Attribute"
                     /\ \E i \in 1..Len(last'.attributes) :
                           /\ EmittedXml[k].kind.attribute = Some(last'.attributes[i])
                           /\ \E m \in 1..Len(find_urls(last'.attributes[i].value)) :
                                 EmittedXml[k].url =
                                     find_urls(last'.attributes[i].value)[m].as_str
         /\ last'.type \in {"Comment", "Characters", "CData"} =>
               /\ EmittedUrlAndKind
                     = ExpectedUrlAndKind(last'.text, TextKindOf(last'.type))
               /\ UNCHANGED <<namespaces, current_parent, pc, result>>
         /\ last'.type \in {"EndElement", "Whitespace"} =>
               UNCHANGED <<collector, namespaces, current_parent, pc, result>>]_vars

\* Links of the four contextual kinds were collected from one document.
C11_Witness ==
    /\ scraper = "xml" /\ pc = "Loop"
    /\ \A tag \in {"Attribute", "Comment", "PlainText", "CData"} :
          \E k \in 1..Len(collector) :
              /\ collector[k].kind.tag = tag
              /\ collector[k].url = << "https://b.test" >>

\* The Namespace links of the output that belong to a registered occurrence.
LinksOfOccurrence(occ) ==
    {k \in NameSpaceLinks(result.links) :
        /\ result.links[k].kind.namespace = Some(occ.namespace)
        /\ result.links[k].location = occ.first_occurrence}

\* C12: after the event loop a registered (prefix, URI) occurrence has a
\* Namespace link iff find_urls(URI) has a match; it has exactly one,
\* whose url is the whole URI and whose kind carries the prefix.
C12_NamespaceFlush ==
    (scraper = "xml" /\ pc = "Done") =>
        /\ \A i \in 1..Len(namespaces) :
              IF find_urls(namespaces[i].namespace_uri) = << >>
              THEN LinksOfOccurrence(namespaces[i]) = {}
              ELSE /\ Cardinality(LinksOfOccurrence(namespaces[i])) = 1
                   /\ \A k \in LinksOfOccurrence(namespaces[i]) :
                         result.links[k].url = namespaces[i].namespace_uri
        /\ \A k \in NameSpaceLinks(result.links) :
              \E i \in 1..Len(namespaces) : k \in LinksOfOccurrence(namespaces[i])

\* Of two registered occurrences, the one with a URL-shaped URI of two
\* matches has its single link and the other has none.
C12_Witness ==
    /\ scraper = "xml" /\ pc = "Done"
    /\ Len(namespaces) = 2
    /\ \E i, j \in 1..2 :
          /\ namespaces[i].namespace_uri = UrlText
          /\ Len(find_urls(UrlText)) = 2
          /\ namespaces[j].namespace_uri = NonUrlText
    /\ Cardinality(NameSpaceLinks(result.links)) = 1

IsHrefAttributeLink(link) ==
    /\ link.kind.tag = "Attribute"
    /\ link.kind.attribute[1].local_name = "href"

\* C13: over the same events scrape_from_href_tags returns the links of the
\* generic scrape restricted, in order, to the Attribute links whose local
\* name is href under any prefix; it holds no link of another kind, and the
\* two scrapes fail or succeed together.
C13_HrefIsRestriction ==
    /\ (scraper = "xml" /\ pc = "Done") => result = xml_scrape(events)
    /\ (scraper = "href" /\ pc = "Done") =>
          /\ result.tag = xml_scrape(events).tag
          /\ result.links = SelectSeq(xml_scrape(events).links, IsHrefAttributeLink)
          /\ \A k \in 1..Len(result.links) : result.links[k].kind.tag = "Attribute"

\* A prefixed href was kept while the generic scrape of the same events
\* holds a Comment link that was dropped.
C13_Witness ==
    /\ scraper = "href" /\ pc = "Done"
    /\ \E k \in 1..Len(result.links) :
          result.links[k].kind.attribute[1].namespace = Some(XLINK_NAMESPACE)
    /\ \E k \in 1..Len(xml_scrape(events).links) :
          xml_scrape(events).links[k].kind.tag = "Comment"

\* The innermost element that is started and not yet ended.
EnclosingElement == IF open = << >> THEN None ELSE Some(open[Len(open)].name)

\* C14: every PlainText and CData link is tagged with the innermost element
\* that is open when the text event arrives, and with no parent only when
\* no element is open.
C14_ParentIsEnclosing ==
    [][(/\ scraper = "xml" /\ pc = "Loop"
        /\ ReadsNewEvent
        /\ last'.type \in {"Characters", "CData"})
          => \A k \in 1..Len(EmittedXml) :
                EmittedXml[k].kind.parent_tag_name = EnclosingElement]_vars

\* The positions of the start events of the open elements, innermost last.
RECURSIVE OpenStarts(_, _, _)
OpenStarts(evs, i, stack) ==
    IF i > Len(evs) THEN stack
    ELSE CASE evs[i].type = "StartElement" -> OpenStarts(evs, i + 1, Append(stack, i))
           [] evs[i].type = "EndElement" ->
                  OpenStarts(evs, i + 1, SubSeq(stack, 1, Len(stack) - 1))
           [] OTHER -> OpenStarts(evs, i + 1, stack)

\* The position of the start event of the innermost open element; 0 when
\* no element is open.
EnclosingStart ==
    LET stack == OpenStarts(events, 1, << >>)
    IN  IF stack = << >> THEN 0 ELSE stack[Len(stack)]

ReadsText ==
    /\ scraper = "xml" /\ pc = "Loop"
    /\ ReadsNewEvent
    /\ last'.type \in {"Characters", "CData"}

\* C15 as stated: every PlainText and CData link is located at the start
\* event of its enclosing element, not at the text event.
C15_TextAtElementStart ==
    [][ReadsText => \A k \in 1..Len(EmittedXml) :
                       EmittedXml[k].location = EnclosingStart]_vars

\* C15 amended: every PlainText and CData link is located at the position
\* reported when its text event is produced, which lies after the start
\* event of the enclosing element.
C15_TextAtTextEvent ==
    [][ReadsText => \A k \in 1..Len(EmittedXml) :
                       /\ EmittedXml[k].location = Len(events')
                       /\ EmittedXml[k].location > EnclosingStart]_vars

\* An element's Attribute link and the PlainText link of its text are
\* located at different positions.
C15_Witness ==
    /\ scraper = "xml"
    /\ \E i, j \in 1..Len(collector) :
          /\ collector[i].kind.tag = "Attribute" /\ collector[i].location = 1
          /\ collector[j].kind.tag = "PlainText" /\ collector[j].location = 2
          /\ collector[j].kind.parent_tag_name = Some(events[1].name)

\* C16: every Attribute link of a start element carries the position
\* reported for that start event, so the Attribute links of one element
\* share one location whatever their attribute and match.
C16_AttributeAtStart ==
    [][(/\ scraper = "xml" /\ pc = "Loop"
        /\ ReadsNewEvent
        /\ last'.type = "StartElement")
          => \A k \in 1..Len(EmittedXml) :
                /\ EmittedXml[k].kind.tag = "Attribute"
                /\ EmittedXml[k].location = Len(events')]_vars

\* One element has emitted the links of two attributes, two matches each,
\* at one location.
C16_Witness ==
    /\ scraper = "xml" /\ pc = "Loop"
    /\ Len(events) = 2 /\ last.type = "StartElement"
    /\ Len(collector) = 4
    /\ collector[1].kind.attribute # collector[3].kind.attribute
    /\ collector[1].url # collector[2].url
    /\ \A k \in 1..4 : collector[k].location = 2

MatchIndex(text, url) ==
    CHOOSE i \in 1..Len(find_urls(text)) : find_urls(text)[i].as_str = url

\* Place of an Attribute link's attribute in its start element.
AttributeIndex(link) ==
    CHOOSE i \in 1..Len(events[link.location].attributes) :
        events[link.location].attributes[i] = link.kind.attribute[1]

\* Place of a NameSpace link's binding among the bindings of the start
\* element that registered it.
BindingIndex(link) ==
    CHOOSE i \in 1..Len(events[link.location].namespace) :
        events[link.location].namespace[i]
            = Binding(link.kind.namespace[1], link.url)

\* Place of a link among the links of its event: attribute order first,
\* match order second.
PlaceInEvent(link) ==
    IF link.kind.tag = "Attribute"
    THEN << AttributeIndex(link), MatchIndex(link.kind.attribute[1].value, link.url) >>
    ELSE << 0, MatchIndex(events[link.location].text, link.url) >>

Lex(p, q) == p[1] < q[1] \/ (p[1] = q[1] /\ p[2] < q[2])

\* a may stand before b in the output list.
InOutputOrder(a, b) ==
    CASE a.kind.tag = "NameSpace" ->
             /\ b.kind.tag = "NameSpace"
             /\ Lex(<<a.location, BindingIndex(a)>>, <<b.location, BindingIndex(b)>>)
      [] b.kind.tag = "NameSpace" -> TRUE
      [] OTHER ->
             \/ a.location < b.location
             \/ a.location = b.location /\ Lex(PlaceInEvent(a), PlaceInEvent(b))

\* C18: the links of the generic scrape stand in event order, within one
\* start element in attribute order and match order; every NameSpace link
\* stands after every other link, NameSpace links in the order of their
\* first registration; while the event loop runs no NameSpace link is
\* emitted.
C18_OutputOrder ==
    scraper = "xml" =>
        /\ pc = "Loop" =>
               \A k \in 1..Len(collector) : collector[k].kind.tag # "NameSpace"
        /\ \A j, k \in 1..Len(collector) :
               j < k => InOutputOrder(collector[j], collector[k])

\* A returned list with the links of two attributes, of a later text and,
\* after them, of two bindings registered before that text.
C18_Witness ==
    /\ scraper = "xml" /\ pc = "Done"
    /\ result = Ok(collector)
    /\ Len(collector) = 8
    /\ collector[1].kind.tag = "Attribute" /\ collector[4].kind.tag = "Attribute"
    /\ collector[1].kind.attribute # collector[4].kind.attribute
    /\ collector[5].kind.tag = "PlainText" /\ collector[6].kind.tag = "PlainText"
    /\ collector[7].kind.tag = "NameSpace" /\ collector[8].kind.tag = "NameSpace"
    /\ collector[7].location = collector[8].location
    /\ collector[7].location < collector[6].location

XlinkTypes == {<<"simple">>, <<"extended">>, <<"locator">>,
               <<"arc">>, <<"resource">>, <<"title">>}

\* The classification error a start element calls for, "" when none.
ClassificationError(ev) ==
    LET type == get_xlink_attribute_value("type", ev.attributes)
        href == get_xlink_attribute_value("href", ev.attributes)
    IN  CASE type = None -> ""
          [] type[1] \notin XlinkTypes -> "UnknownTypeError"
          [] type[1] = <<"locator">> /\ href = None -> "MissingRequiredAttributeError"
          [] OTHER -> ""

HasType(ev) == get_xlink_attribute_value("type", ev.attributes) # None

\* C19: in Idle and in InsideExtended alike, a start element with an
\* unrecognized type or a locator without href ends the scrape with
\* UnknownTypeError, respectively MissingRequiredAttributeError, whatever
\* the nesting; a start element without the type attribute raises no error
\* and yields no link.
C19_ClassificationErrors ==
    [][(/\ scraper = "xlink" /\ pc \in {"Idle", "InsideExtended"}
        /\ ReadsNewEvent
        /\ last'.type = "StartElement")
          => /\ ClassificationError(last') # ""
                  => /\ pc' = "Done"
                     /\ result' = Err(ClassificationError(last'))
             /\ ~HasType(last')
                  => /\ EmittedXlink = << >>
                     /\ pc' = pc
                     /\ result' = result]_vars

\* After an element without type that holds a URL and gave no link, a
\* top-level locator without href has ended the scrape with the
\* classification error.
C19_Witness ==
    /\ scraper = "xlink" /\ pc = "Done"
    /\ Len(events) = 2
    /\ events[1].type = "StartElement" /\ events[2].type = "StartElement"
    /\ ~HasType(events[1])
    /\ get_xlink_attribute_value("href", events[1].attributes) = Some(UrlText)
    /\ get_xlink_attribute_value("type", events[2].attributes) = Some(<<"locator">>)
    /\ get_xlink_attribute_value("href", events[2].attributes) = None
    /\ AllLinks = << >>
    /\ result = Err("MissingRequiredAttributeError")

\* The events the XLink scraper passes over: title and non-linking start
\* elements, end elements other than the one that closes the extended
\* element, text and every other event short of the end of the stream.
PassedOver(ev) ==
    \/ /\ ev.type = "StartElement"
       /\ \/ ~HasType(ev)
          \/ get_xlink_attribute_value("type", ev.attributes) = Some(<<"title">>)
    \/ /\ ev.type = "EndElement"
       /\ pc = "InsideExtended" => ev.name # ext_name
    \/ ev.type \in {"Characters", "CData", "Comment", "Whitespace"}

\* C20: a title element, a non-linking start element, an end element whose
\* name differs from the enclosing extended element's, and any text or
\* other event leave the collected links and the state, Idle or
\* InsideExtended(name), as they were.
C20_PassedOverEvents ==
    [][(/\ scraper = "xlink" /\ pc \in {"Idle", "InsideExtended"}
        /\ ReadsNewEvent
        /\ PassedOver(last'))
          => /\ collector' = collector
             /\ ret' = ret
             /\ pc' = pc
             /\ ext_name' = ext_name
             /\ result' = result]_vars

\* Inside an extended element that has given links, a title, its end tag
\* and a text were read, and the links and the state are as before.
C20_Witness ==
    /\ scraper = "xlink" /\ pc = "InsideExtended"
    /\ Len(events) = 4
    /\ events[1].type = "StartElement" /\ events[2].type = "StartElement"
    /\ Classified(events[1]).res = "Some" /\ Classified(events[1]).kind = "Extended"
    /\ Classified(events[2]).res = "Some" /\ Classified(events[2]).kind = "Title"
    /\ events[3].type = "EndElement" /\ events[3].name # ext_name
    /\ events[4].type = "Characters"
    /\ collector = << >>
    /\ Len(ret) = 2
    /\ \A k \in 1..2 : ret[k].location = 1 /\ ret[k].kind = "Role"
    /\ result = Running

\* The event that entered the running sub-loop: the latest start of an
\* extended element.
IsExtendedStart(ev) ==
    /\ ev.type = "StartElement"
    /\ Classified(ev).res = "Some"
    /\ Classified(ev).kind = "Extended"

ExtendedStart ==
    CHOOSE k \in 1..Len(events) :
        /\ IsExtendedStart(events[k])
        /\ \A j \in (k + 1)..Len(events) : ~IsExtendedStart(events[j])

\* Number of elements open below the extended element of the sub-loop.
WrapDepth ==
    Cardinality({k \in (ExtendedStart + 1)..Len(events) :
                     events[k].type = "StartElement"})
        - Cardinality({k \in (ExtendedStart + 1)..Len(events) :
                           events[k].type = "EndElement"})

\* The links of a locator, arc or resource read in the sub-loop.
ExpectedInside(ev, position) ==
    LET kind == Classified(ev).kind
        value(key) == get_xlink_attribute_value(key, ev.attributes)
    IN  CASE kind = "Locator" ->
                 << [url |-> value("href")[1], location |-> position,
                     kind |-> "Extended"] >>
                     \o ExpectedMatches(value("role"), "Role", position)
          [] kind = "Arc" -> ExpectedMatches(value("arcrole"), "ArcRole", position)
          [] kind = "Resource" -> ExpectedMatches(value("role"), "Role", position)

\* C21: while the sub-loop of an extended element runs, a linking start
\* element wrapped in one or more other elements is treated as a direct
\* child is: Simple and Extended fail the scrape with the matching
\* inside-of-extended error, Locator, Arc and Resource are accepted and
\* give their links.
C21_AnyDepth ==
    [][(/\ scraper = "xlink" /\ pc = "InsideExtended"
        /\ ReadsNewEvent
        /\ last'.type = "StartElement"
        /\ Classified(last').res = "Some"
        /\ WrapDepth >= 1)
          => /\ Classified(last').kind \in {"Simple", "Extended"}
                  => /\ pc' = "Done"
                     /\ result' = Err(InsideError(Classified(last').kind))
             /\ Classified(last').kind \in {"Locator", "Arc", "Resource"}
                  => /\ pc' = "InsideExtended"
                     /\ result' = result
                     /\ collector' = collector
                     /\ EmittedXlink = ExpectedInside(last', Len(events'))]_vars

\* Inside an extended element and a non-linking wrapper, a locator was
\* accepted, and a simple element wrapped once more has failed the scrape.
C21_Witness ==
    /\ scraper = "xlink" /\ pc = "Done"
    /\ Len(events) = 4
    /\ IsExtendedStart(events[1])
    /\ events[2].type = "StartElement" /\ ~HasType(events[2])
    /\ events[2].name # events[1].name
    /\ events[3].type = "StartElement"
    /\ Classified(events[3]).res = "Some" /\ Classified(events[3]).kind = "Locator"
    /\ events[4].type = "StartElement"
    /\ Classified(events[4]).res = "Some" /\ Classified(events[4]).kind = "Simple"
    /\ \E k \in 1..Len(ret) : ret[k].kind = "Extended" /\ ret[k].location = 3
    /\ result = Err("SimpleInsideOfExtendedError")

\* The links of AllLinks located at position p, in their order.
LinksAt(p) == SelectSeq(AllLinks, LAMBDA l : l.location = p)

\* The Role links of an extended element's own role stand, complete, before
\* every link of a later event (an extended element read inside another
\* fails the scrape at once and gives no link).
OwnRoleFirst ==
    \A p \in 1..Len(events) :
        IsExtendedStart(events[p]) =>
            /\ pc # "Done" \/ result.tag = "Ok" \/ p < Len(events)
                   => LinksAt(p) = ExpectedMatches(
                                       get_xlink_attribute_value("role", events[p].attributes),
                                       "Role", p)
            /\ \A j \in 1..Len(AllLinks) :
                   AllLinks[j].location = p
                       => \A k \in 1..(j - 1) : AllLinks[k].location <= p

\* Every Extended link follows the start of an extended element.
ExtendedLinksAfterEntry ==
    \A k \in 1..Len(AllLinks) :
        AllLinks[k].kind = "Extended" =>
            \E p \in 1..(AllLinks[k].location - 1) : IsExtendedStart(events[p])

\* C22: a Simple link is emitted only in state Idle and an Extended link
\* only in state InsideExtended; the Role links of an extended element's
\* own role precede every link of the elements read in its sub-loop; a
\* returned list holds no Extended link that is not preceded by the entry
\* into an extended element.
C22_KindsAndStates ==
    [][scraper = "xlink" =>
          /\ \A k \in 1..Len(EmittedXlink) :
                /\ EmittedXlink[k].kind = "Simple" => pc = "Idle"
                /\ EmittedXlink[k].kind = "Extended" => pc = "InsideExtended"
          /\ OwnRoleFirst'
          /\ ExtendedLinksAfterEntry'
          /\ (pc' = "Done" /\ result'.tag = "Ok") => result'.links = AllLinks']_vars

\* A returned list with the links of a simple element, then the own Role
\* links of an extended element, then the Extended link of a locator read
\* in its sub-loop.
C22_Witness ==
    /\ scraper = "xlink" /\ pc = "Done"
    /\ result.tag = "Ok"
    /\ Len(events) >= 3
    /\ \A p \in 1..3 : events[p].type = "StartElement"
    /\ IsExtendedStart(events[2])
    /\ \E i, j, k \in 1..Len(result.links) :
          /\ i < j /\ j < k
          /\ result.links[i].kind = "Simple" /\ result.links[i].location = 1
          /\ result.links[j].kind = "Role" /\ result.links[j].location = 2
          /\ result.links[k].kind = "Extended" /\ result.links[k].location = 3

====
